---- MODULE Spec2Model ----
(***************************************************************************)
(* Model of CloudmapperauditorStack (auditor/lib/cloudmapperauditor-stack.js) *)
(* The constructor is a straight-line program: it loads the configuration, *)
(* refuses the placeholder configuration, builds a VPC without NAT         *)
(* gateways, attaches an always-false CloudFormation condition to the      *)
(* routes of the private subnets, and declares the task, its two launch    *)
(* rules and the alarm pipeline.  The resource tree handed back by the     *)
(* construct library and the evaluation of the synthesized template are    *)
(* modelled at the level of the interface the constructor relies on.       *)
(***************************************************************************)
EXTENDS Integers, Sequences, FiniteSets, TLC

VARIABLES pc, config, console, exitCode, vpc, conditions, exclude_condition,
          cluster, taskDefinition, rules, resources, params, materialized,
          runs, afterFirst

vars == <<pc, config, console, exitCode, vpc, conditions, exclude_condition,
          cluster, taskDefinition, rules, resources, params, materialized,
          runs, afterFirst>>

----------------------------------------------------------------------------
(* Bounds of the model *)

\* largest number of route resources the library puts under one subnet
MaxRoutes == 2
\* number of times the suppressor is applied in the re-run specification
MaxRuns == 2

----------------------------------------------------------------------------
(* Program constants *)

maxAzs == 2
natGateways == 0

Placeholder == "MYCOMPANY-cloudmapper"
ConfigMessage == "You must configure the CDK app by editing ./s3_bucket_files/cdk_app.yaml"

\* cfnOptions.condition of a resource that carries no condition
NoCondition == 0

Range(s) == {s[i] : i \in DOMAIN s}

----------------------------------------------------------------------------
(* The configuration file *)

NoConfig == [s3_bucket |-> "", iam_role |-> "", alarm_sns_arn |-> ""]

Configs ==
  { [s3_bucket |-> b, iam_role |-> "cloudmapper-role",
     alarm_sns_arn |-> "arn:aws:sns:us-east-1:000000000000:alarms"] :
       b \in {Placeholder, "acme-cloudmapper"} }

\* if (config['s3_bucket'] == 'MYCOMPANY-cloudmapper') { ...; process.exit(1) }
CheckOutcome_NoExit(cfg) == "vpc"

CheckOutcome(cfg) == IF cfg.s3_bucket = Placeholder THEN "halted" ELSE "vpc"

----------------------------------------------------------------------------
(* The resource tree of new ec2.Vpc(this, 'CloudMapperVpc', {maxAzs, natGateways}) *)

Child(k) == [kind |-> k, condition |-> NoCondition]

BaseChildren ==
  <<Child("CfnSubnet"), Child("CfnRouteTable"),
    Child("CfnSubnetRouteTableAssociation")>>

Routes(n) == [i \in 1..n |-> Child("CfnRoute")]

\* a NAT gateway and its address live in the public subnet that hosts them
NatChildren(i, nat) ==
  IF i <= nat THEN <<Child("CfnEIP"), Child("CfnNatGateway")>> ELSE <<>>

PublicSubnet(i, r, nat) ==
  [subnetType |-> "Public", availabilityZone |-> i,
   children |-> BaseChildren \o Routes(r) \o NatChildren(i, nat)]

PrivateSubnet(i, r) ==
  [subnetType |-> "Private", availabilityZone |-> i,
   children |-> BaseChildren \o Routes(r)]

\* one public and one private subnet per availability zone; the subnets are
\* objects 1..2*azs, the two lists hold references to them
MkVpc(azs, nat, pubRoutes, privRoutes) ==
  [subnets |-> [s \in 1..(2 * azs) |->
                  IF s <= azs THEN PublicSubnet(s, pubRoutes[s], nat)
                  ELSE PrivateSubnet(s - azs, privRoutes[s - azs])],
   publicSubnets |-> [i \in 1..azs |-> i],
   privateSubnets |-> [i \in 1..azs |-> azs + i]]

Vpcs(azs, nat) ==
  { MkVpc(azs, nat, pr, vr) :
      pr \in [1..azs -> 0..MaxRoutes], vr \in [1..azs -> 0..MaxRoutes] }

NoVpc == [subnets |-> <<>>, publicSubnets |-> <<>>, privateSubnets |-> <<>>]

NoCluster == [id |-> "", vpc |-> ""]

----------------------------------------------------------------------------
(* The always-false condition *)

Lit(v) == [tag |-> "lit", val |-> v]

Ref(n) == [tag |-> "ref", val |-> n]

ExcludeExpression_Parameter ==
  [fn |-> "Fn::Equals", lhs |-> Ref("Stage"), rhs |-> Lit("false")]

\* cdk.Fn.conditionEquals(true, false)
ExcludeExpression == [fn |-> "Fn::Equals", lhs |-> Lit("true"), rhs |-> Lit("false")]

ExcludeCondition ==
  [logicalId |-> "exclude-default-route-subnet", expression |-> ExcludeExpression]

----------------------------------------------------------------------------
(* The route suppression loop *)

IsDefaultRoute_WrongName(child) == child.kind = "Route"

IsDefaultRoute_Prefix(child) == child.kind \in {"CfnRoute", "CfnRouteTable"}

\* child.constructor.name === "CfnRoute"
IsDefaultRoute(child) == child.kind = "CfnRoute"

AttachCondition_Toggle(child, cond) ==
  [child EXCEPT !.condition = IF @ = NoCondition THEN cond ELSE NoCondition]

\* child.cfnOptions.condition = exclude_condition
AttachCondition(child, cond) == [child EXCEPT !.condition = cond]

\* for (var child of subnet.node.children) { if (...) {...} }
SuppressChildren(children, cond) ==
  [j \in DOMAIN children |->
     IF IsDefaultRoute(children[j]) THEN AttachCondition(children[j], cond)
     ELSE children[j]]

SuppressedSubnets_All(v) == v.publicSubnets \o v.privateSubnets

SuppressedSubnets_First(v) == SubSeq(v.privateSubnets, 1, 1)

\* for (var subnet of vpc.privateSubnets)
SuppressedSubnets(v) == v.privateSubnets

Suppress(v, cond) ==
  [v EXCEPT !.subnets =
     [s \in DOMAIN v.subnets |->
        IF s \in Range(SuppressedSubnets(v))
        THEN [v.subnets[s] EXCEPT !.children = SuppressChildren(@, cond)]
        ELSE v.subnets[s]]]

NextAfterSuppress_Checked(v) ==
  IF \E s \in Range(v.privateSubnets) :
       \A j \in DOMAIN v.subnets[s].children :
         v.subnets[s].children[j].condition = NoCondition
  THEN "halted" ELSE "cluster"

\* the statement after the loop is reached unconditionally
NextAfterSuppress(v) == "cluster"

----------------------------------------------------------------------------
(* Launch targets of the two event rules *)

ScheduledRunTarget(c, t) ==
  [cluster |-> c, taskDefinition |-> t,
   subnetSelection |-> [subnetType |-> "Public"]]

ManualRunTarget_Private(c, t) ==
  [cluster |-> c, taskDefinition |-> t,
   subnetSelection |-> [subnetType |-> "Private"]]

ManualRunTarget(c, t) ==
  [cluster |-> c, taskDefinition |-> t,
   subnetSelection |-> [subnetType |-> "Public"]]

\* the subnets of the cluster's VPC a subnet selection resolves to
SelectSubnets(v, selection) ==
  {s \in DOMAIN v.subnets : v.subnets[s].subnetType = selection.subnetType}

----------------------------------------------------------------------------
(* Evaluation of the synthesized template *)

ParamNames == {"Stage"}
ParamValues == [ParamNames -> {"true", "false"}]
NoParams == [n \in ParamNames |-> ""]

Operand(o, p) == IF o.tag = "ref" THEN p[o.val] ELSE o.val

EvalCondition(expr, p) == Operand(expr.lhs, p) = Operand(expr.rhs, p)

IsCreated(child, conds, p) ==
  \/ child.condition = NoCondition
  \/ /\ child.condition \in DOMAIN conds
     /\ EvalCondition(conds[child.condition].expression, p)

Materialize(v, conds, p) ==
  UNION { { <<s, j>> : j \in { k \in DOMAIN v.subnets[s].children :
                                 IsCreated(v.subnets[s].children[k], conds, p) } } :
          s \in DOMAIN v.subnets }

----------------------------------------------------------------------------
(* The constructor, statement by statement *)

Init ==
  /\ pc = "load"
  /\ config = NoConfig
  /\ console = <<>>
  /\ exitCode = 0
  /\ vpc = NoVpc
  /\ conditions = <<>>
  /\ exclude_condition = NoCondition
  /\ cluster = NoCluster
  /\ taskDefinition = ""
  /\ rules = <<>>
  /\ resources = {}
  /\ params = NoParams
  /\ materialized = {}
  /\ runs = 0
  /\ afterFirst = NoVpc

LoadConfig ==
  /\ pc = "load"
  /\ \E c \in Configs : config' = c
  /\ pc' = "check"
  /\ UNCHANGED <<console, exitCode, vpc, conditions, exclude_condition, cluster,
                 taskDefinition, rules, resources, params, materialized, runs,
                 afterFirst>>

CheckConfig ==
  /\ pc = "check"
  /\ pc' = CheckOutcome(config)
  /\ IF pc' = "halted"
     THEN console' = Append(console, ConfigMessage) /\ exitCode' = 1
     ELSE UNCHANGED <<console, exitCode>>
  /\ UNCHANGED <<config, vpc, conditions, exclude_condition, cluster,
                 taskDefinition, rules, resources, params, materialized, runs,
                 afterFirst>>

CreateVpc ==
  /\ pc = "vpc"
  /\ \E v \in Vpcs(maxAzs, natGateways) : vpc' = v
  /\ resources' = resources \cup {"CloudMapperVpc"}
  /\ pc' = "condition"
  /\ UNCHANGED <<config, console, exitCode, conditions, exclude_condition,
                 cluster, taskDefinition, rules, params, materialized, runs,
                 afterFirst>>

CreateCondition ==
  /\ pc = "condition"
  /\ conditions' = Append(conditions, ExcludeCondition)
  /\ exclude_condition' = Len(conditions) + 1
  /\ resources' = resources \cup {"exclude-default-route-subnet"}
  /\ pc' = "suppress"
  /\ UNCHANGED <<config, console, exitCode, vpc, cluster, taskDefinition,
                 rules, params, materialized, runs, afterFirst>>

SuppressRoutes ==
  /\ pc = "suppress"
  /\ vpc' = Suppress(vpc, exclude_condition)
  /\ pc' = NextAfterSuppress(vpc')
  /\ UNCHANGED <<config, console, exitCode, conditions, exclude_condition,
                 cluster, taskDefinition, rules, resources, params,
                 materialized, runs, afterFirst>>

CreateCluster ==
  /\ pc = "cluster"
  /\ cluster' = [id |-> "Cluster", vpc |-> "CloudMapperVpc"]
  /\ resources' = resources \cup {"Cluster"}
  /\ pc' = "task"
  /\ UNCHANGED <<config, console, exitCode, vpc, conditions, exclude_condition,
                 taskDefinition, rules, params, materialized, runs, afterFirst>>

CreateTaskDefinition ==
  /\ pc = "task"
  /\ taskDefinition' = "taskDefinition"
  /\ resources' = resources \cup {"taskDefinition"}
  /\ pc' = "scheduled_run"
  /\ UNCHANGED <<config, console, exitCode, vpc, conditions, exclude_condition,
                 cluster, rules, params, materialized, runs, afterFirst>>

CreateScheduledRun ==
  /\ pc = "scheduled_run"
  /\ rules' = Append(rules, [ruleName |-> "cloudmapper_scheduler",
                             targets |-> <<ScheduledRunTarget(cluster, taskDefinition)>>])
  /\ resources' = resources \cup {"scheduled_run"}
  /\ pc' = "manual_run"
  /\ UNCHANGED <<config, console, exitCode, vpc, conditions, exclude_condition,
                 cluster, taskDefinition, params, materialized, runs, afterFirst>>

CreateManualRun ==
  /\ pc = "manual_run"
  /\ rules' = Append(rules, [ruleName |-> "cloudmapper_manual_run",
                             targets |-> <<ManualRunTarget(cluster, taskDefinition)>>])
  /\ resources' = resources \cup {"manual_run"}
  /\ pc' = "alarm"
  /\ UNCHANGED <<config, console, exitCode, vpc, conditions, exclude_condition,
                 cluster, taskDefinition, params, materialized, runs, afterFirst>>

CreateAlarmPipeline ==
  /\ pc = "alarm"
  /\ resources' = resources \cup {"error_alarm", "cloudmapper_alarm", "alarm_forwarder"}
  /\ pc' = "done"
  /\ UNCHANGED <<config, console, exitCode, vpc, conditions, exclude_condition,
                 cluster, taskDefinition, rules, params, materialized, runs,
                 afterFirst>>

\* the provisioning framework applies the synthesized plan
Deploy ==
  /\ pc = "done"
  /\ \E p \in ParamValues :
       /\ params' = p
       /\ materialized' = Materialize(vpc, conditions, p)
  /\ pc' = "deployed"
  /\ UNCHANGED <<config, console, exitCode, vpc, conditions, exclude_condition,
                 cluster, taskDefinition, rules, resources, runs, afterFirst>>

Next ==
  \/ LoadConfig
  \/ CheckConfig
  \/ CreateVpc
  \/ CreateCondition
  \/ SuppressRoutes
  \/ CreateCluster
  \/ CreateTaskDefinition
  \/ CreateScheduledRun
  \/ CreateManualRun
  \/ CreateAlarmPipeline
  \/ Deploy

Spec == Init /\ [][Next]_vars

\* the constructor is synchronous code that runs to its end
FairSpec == Spec /\ WF_vars(Next)

----------------------------------------------------------------------------
(* Applying the suppressor again to a network it has already processed *)

InitRerun ==
  /\ pc = "suppress"
  /\ config \in {c \in Configs : CheckOutcome(c) = "vpc"}
  /\ console = <<>>
  /\ exitCode = 0
  /\ vpc \in Vpcs(maxAzs, natGateways)
  /\ conditions = <<ExcludeCondition>>
  /\ exclude_condition = 1
  /\ cluster = NoCluster
  /\ taskDefinition = ""
  /\ rules = <<>>
  /\ resources = {"CloudMapperVpc", "exclude-default-route-subnet"}
  /\ params = NoParams
  /\ materialized = {}
  /\ runs = 0
  /\ afterFirst = NoVpc

Reapply ==
  /\ pc = "suppress"
  /\ runs < MaxRuns
  /\ vpc' = Suppress(vpc, exclude_condition)
  /\ runs' = runs + 1
  /\ afterFirst' = IF runs = 0 THEN vpc' ELSE afterFirst
  /\ UNCHANGED <<pc, config, console, exitCode, conditions, exclude_condition,
                 cluster, taskDefinition, rules, resources, params,
                 materialized>>

NextRerun == Reapply

SpecRerun == InitRerun /\ [][NextRerun]_vars

----------------------------------------------------------------------------
(* Properties *)

AfterSuppress ==
  {"cluster", "task", "scheduled_run", "manual_run", "alarm", "done", "deployed"}

Suppressed == pc \in AfterSuppress

PrivateIds == Range(vpc.privateSubnets)
PublicIds == Range(vpc.publicSubnets)

ChildrenOf(s) == vpc.subnets[s].children

RouteIdx(s) == {j \in DOMAIN ChildrenOf(s) : ChildrenOf(s)[j].kind = "CfnRoute"}

AlwaysFalse(c) ==
  /\ c \in DOMAIN conditions
  /\ conditions[c].expression.lhs = Lit("true")
  /\ conditions[c].expression.rhs = Lit("false")

SomePrivateRouteSuppressed ==
  \E s \in PrivateIds : \E j \in RouteIdx(s) :
    /\ exclude_condition # NoCondition
    /\ ChildrenOf(s)[j].condition = exclude_condition

\* C1: once the suppression loop has run, every CfnRoute child of every
\* private subnet carries the always-false condition in its condition slot.
C1_RoutesSuppressed ==
  Suppressed =>
    \A s \in PrivateIds : \A j \in RouteIdx(s) :
      /\ ChildrenOf(s)[j].condition # NoCondition
      /\ ChildrenOf(s)[j].condition = exclude_condition
      /\ AlwaysFalse(exclude_condition)

C1_Witness ==
  /\ Suppressed
  /\ Len(vpc.privateSubnets) = maxAzs
  /\ \A s \in PrivateIds : RouteIdx(s) # {}
  /\ SomePrivateRouteSuppressed

\* C2: with the placeholder configuration the constructor prints the message,
\* exits with status 1 and stays halted, and no resource is ever constructed.
C2_PlaceholderHalts ==
  /\ [](config.s3_bucket = Placeholder =>
          /\ resources = {}
          /\ vpc = NoVpc
          /\ conditions = <<>>
          /\ rules = <<>>
          /\ pc \in {"check", "halted"})
  /\ [](pc = "halted" =>
          /\ exitCode = 1
          /\ ConfigMessage \in Range(console))
  /\ ((pc = "check" /\ config.s3_bucket = Placeholder) ~> [](pc = "halted"))

C2_Witness ==
  /\ pc = "halted"
  /\ config.s3_bucket = Placeholder
  /\ exitCode = 1
  /\ resources = {}

\* C3: the suppression loop leaves every public subnet exactly as it was, and
\* no child of a public subnet ever carries a condition.
C3_PublicUntouched ==
  [][ /\ pc = "suppress" =>
          \A s \in PublicIds : vpc'.subnets[s] = vpc.subnets[s]
      /\ \A s \in Range(vpc'.publicSubnets) :
          \A j \in DOMAIN vpc'.subnets[s].children :
            vpc'.subnets[s].children[j].condition = NoCondition ]_vars

C3_Witness ==
  /\ Suppressed
  /\ SomePrivateRouteSuppressed
  /\ \A s \in PublicIds : \E j \in RouteIdx(s) :
       ChildrenOf(s)[j].condition = NoCondition

\* C4: inside a private subnet the loop changes nothing but the condition slot
\* of children of kind CfnRoute; the children keep their number, order and
\* kinds, the other children keep their slot, and the subnet's other
\* attributes and the subnet lists stay the same.
C4_OnlyRoutesChange ==
  [][ pc = "suppress" =>
        /\ vpc'.privateSubnets = vpc.privateSubnets
        /\ vpc'.publicSubnets = vpc.publicSubnets
        /\ DOMAIN vpc'.subnets = DOMAIN vpc.subnets
        /\ \A s \in PrivateIds :
             /\ vpc'.subnets[s].subnetType = vpc.subnets[s].subnetType
             /\ vpc'.subnets[s].availabilityZone = vpc.subnets[s].availabilityZone
             /\ DOMAIN vpc'.subnets[s].children = DOMAIN ChildrenOf(s)
             /\ \A j \in DOMAIN ChildrenOf(s) :
                  /\ vpc'.subnets[s].children[j].kind = ChildrenOf(s)[j].kind
                  /\ ChildrenOf(s)[j].kind # "CfnRoute" =>
                       vpc'.subnets[s].children[j] = ChildrenOf(s)[j] ]_vars

C4_Witness ==
  /\ Suppressed
  /\ \E s \in PrivateIds :
       /\ \E j \in RouteIdx(s) : ChildrenOf(s)[j].condition = exclude_condition
       /\ \E j \in DOMAIN ChildrenOf(s) :
            /\ ChildrenOf(s)[j].kind = "CfnRouteTable"
            /\ ChildrenOf(s)[j].condition = NoCondition
       /\ \E j \in DOMAIN ChildrenOf(s) :
            /\ ChildrenOf(s)[j].kind = "CfnSubnetRouteTableAssociation"
            /\ ChildrenOf(s)[j].condition = NoCondition

\* C5: the exclusion condition is false under every parameter assignment, so
\* the applied plan contains each private subnet and its route table, no
\* route of a private subnet and no NAT gateway.
C5_NeverMaterialized ==
  /\ exclude_condition # NoCondition =>
       \A p \in ParamValues :
         ~EvalCondition(conditions[exclude_condition].expression, p)
  /\ pc = "deployed" =>
       /\ \A s \in PrivateIds : \A j \in DOMAIN ChildrenOf(s) :
            /\ ChildrenOf(s)[j].kind \in {"CfnSubnet", "CfnRouteTable"} =>
                 <<s, j>> \in materialized
            /\ ChildrenOf(s)[j].kind = "CfnRoute" => <<s, j>> \notin materialized
       /\ \A s \in DOMAIN vpc.subnets : \A j \in DOMAIN ChildrenOf(s) :
            ChildrenOf(s)[j].kind = "CfnNatGateway" => <<s, j>> \notin materialized

C5_Witness ==
  /\ pc = "deployed"
  /\ params \in ParamValues
  /\ \A s \in PrivateIds : RouteIdx(s) # {}
  /\ \E s \in PrivateIds : \E j \in DOMAIN ChildrenOf(s) : <<s, j>> \in materialized

\* C6: with maxAzs 2 and no NAT gateways the suppressed tree has exactly two
\* private subnets, every route of a private subnet refers to the one
\* condition object that was created, and no NAT gateway is in the tree.
C6_EndToEnd ==
  Suppressed =>
    /\ Len(vpc.privateSubnets) = 2
    /\ Cardinality(PrivateIds) = 2
    /\ Len(conditions) = 1
    /\ exclude_condition = 1
    /\ conditions[1].logicalId = "exclude-default-route-subnet"
    /\ \A s \in PrivateIds : \A j \in RouteIdx(s) : ChildrenOf(s)[j].condition = 1
    /\ \A s \in DOMAIN vpc.subnets : \A j \in DOMAIN ChildrenOf(s) :
         ChildrenOf(s)[j].kind # "CfnNatGateway"

C6_Witness ==
  /\ pc = "done"
  /\ Len(vpc.privateSubnets) = 2
  /\ \A s \in PrivateIds :
       /\ Cardinality(RouteIdx(s)) = 1
       /\ \A j \in RouteIdx(s) : ChildrenOf(s)[j].condition = 1

\* C7: once the suppression loop has run, every private subnet has exactly
\* one CfnRoute child, and that child carries an always-false condition.
C7_ExactlyOneSuppressedRoute ==
  Suppressed =>
    \A s \in PrivateIds :
      /\ Cardinality(RouteIdx(s)) = 1
      /\ \A j \in RouteIdx(s) : AlwaysFalse(ChildrenOf(s)[j].condition)

\* C8: applying the suppressor again gives the tree the first application
\* gave: same subnets, same suppressed routes, one condition per route.
C8_Idempotent ==
  runs >= 1 =>
    /\ vpc = afterFirst
    /\ Len(vpc.privateSubnets) = Len(afterFirst.privateSubnets)
    /\ Len(vpc.publicSubnets) = Len(afterFirst.publicSubnets)
    /\ \A s \in PrivateIds : \A j \in RouteIdx(s) :
         ChildrenOf(s)[j].condition = exclude_condition

C8_Witness ==
  /\ runs >= 2
  /\ SomePrivateRouteSuppressed

MissedSubnets == {s \in PrivateIds : RouteIdx(s) = {}}

\* C9: when a private subnet has no CfnRoute child the loop attaches nothing
\* in it, no error is raised (the only halt is the configuration check) and
\* the constructor runs on to its end.
C9_SilentMiss ==
  /\ [](pc = "halted" => config.s3_bucket = Placeholder)
  /\ [](Suppressed =>
          \A s \in MissedSubnets : \A j \in DOMAIN ChildrenOf(s) :
            ChildrenOf(s)[j].condition = NoCondition)
  /\ ((pc = "suppress" /\ MissedSubnets # {}) ~> (pc = "done" /\ MissedSubnets # {}))

C9_Witness ==
  /\ pc = "done"
  /\ MissedSubnets # {}
  /\ \E s \in PrivateIds : s \notin MissedSubnets

\* C10: every target of every rule names the one cluster and the one task
\* definition and selects public subnets only, so no private subnet is ever
\* a launch target.
C10_PublicTargetsOnly ==
  \A r \in Range(rules) : \A t \in Range(r.targets) :
    /\ t.cluster = cluster
    /\ t.cluster.id = "Cluster"
    /\ t.cluster.vpc = "CloudMapperVpc"
    /\ t.taskDefinition = "taskDefinition"
    /\ SelectSubnets(vpc, t.subnetSelection) \subseteq PublicIds
    /\ SelectSubnets(vpc, t.subnetSelection) \cap PrivateIds = {}

C10_Witness ==
  /\ pc = "done"
  /\ Len(rules) = 2
  /\ \E s \in PrivateIds : \E j \in RouteIdx(s) :
       ChildrenOf(s)[j].condition = exclude_condition

====
